---- MODULE Spec2Model ----
(***************************************************************************)
(* Model of tutorials/delta_lake/2-distributed-batch-inference.ipynb.      *)
(*                                                                         *)
(* The notebook is a straight line of statements that build a lazy         *)
(* dataframe plan (read_delta_lake, limit, where, into_partitions,         *)
(* with_column, select) and then materialise it with write_parquet and     *)
(* read_parquet(...).collect().  The statements of the notebook and the    *)
(* ClassifyImage UDF are modelled from the notebook; the dataframe engine  *)
(* the statements call into is not part of the notebook and is modelled    *)
(* from its documented contract (a stage-by-stage plan interpreter).       *)
(*                                                                         *)
(* Scaling: the dataset (10k rows), NUM_ROWS (1000) and the partition      *)
(* count (16) are scaled down to the bounds below; NUM_ROWS and the        *)
(* partition count are drawn from small ranges so that both "fewer rows    *)
(* than the limit / than partitions" and "more rows" occur.                *)
(*                                                                         *)
(* The remote data is read when the engine reaches it: the scan picks the  *)
(* table, the download stage picks the image behind every url.  A run is   *)
(* either "real" (any image, the ResNet classifier) or "stub" (a constant  *)
(* 4x4x3 decode and a classifier that always answers "cat").               *)
(*                                                                         *)
(* Every external step may fail instead of returning: the scan (rejected   *)
(* credentials), the download stage (fetch, decode), a UDF batch (cast,    *)
(* model) and the sink (write).  `fault` records what the library raised,  *)
(* `error` what the terminal call raised to the notebook.                  *)
(***************************************************************************)
EXTENDS Integers, Sequences, FiniteSets, Bags, TLC

(* ---------------------------- bounds ----------------------------------- *)
MaxRows == 3          \* rows of the Delta Lake table
MaxObjLen == 2        \* length of a row's `object` list: 1..MaxObjLen
MaxNumRows == 3       \* NUM_ROWS is drawn from 0..MaxNumRows
MaxPartitions == 2    \* into_partitions(k), k in 1..MaxPartitions
NumWorkers == 2       \* workers of the runner
MaxPixel == 1         \* distinct contents of a 3-channel image: 0..MaxPixel

Workers == 1..NumWorkers

(* ------------------------- generic helpers ----------------------------- *)
Min(a, b) == IF a <= b THEN a ELSE b

Range(s) == {s[i] : i \in DOMAIN s}

Take(s, n) == SubSeq(s, 1, Min(n, Len(s)))

RECURSIVE Flatten(_)
Flatten(ps) == IF ps = <<>> THEN <<>> ELSE Head(ps) \o Flatten(Tail(ps))

RECURSIVE Pow2(_)
Pow2(n) == IF n = 0 THEN 1 ELSE 2 * Pow2(n - 1)

RECURSIVE SumSeq(_)
SumSeq(s) == IF s = <<>> THEN 0 ELSE Head(s) + SumSeq(Tail(s))

SeqToBag(s) == [v \in Range(s) |-> Cardinality({i \in DOMAIN s : s[i] = v})]

CountRows(ps) == Len(Flatten(ps))

(* ------------------------- the remote data ----------------------------- *)
\* filenames of the dataset rows, in table order (all distinct)
FilenameOf(i) == <<"a", "b", "c", "d", "e", "f">>[i]

\* one entry of a row's `object` list (a bounding-box struct)
BndBox == [name |-> "n0", difficult |-> "0"]

\* a row of the Delta Lake table: filename and a list-valued `object`
SourceRow(i, objlen) ==
    [c \in {"filename", "object"} |->
        IF c = "filename" THEN FilenameOf(i) ELSE [j \in 1..objlen |-> BndBox]]

\* all tables the scan may find at the table URI; every image of the
\* dataset is annotated with at least one object
SourceTables ==
    UNION {{[i \in 1..n |-> SourceRow(i, f[i])] : f \in [1..n -> 1..MaxObjLen]}
            : n \in 0..MaxRows}

\* the decoded images the bucket may hold, as (height, width, channels)
\* tensors: grayscale (1 channel) or RGB (3 channels)
Images ==
    {[shape |-> <<4, 4, 1>>, px |-> 0]}
    \cup {[shape |-> <<4, 4, 3>>, px |-> p] : p \in 0..MaxPixel}

(* --------------------------- ClassifyImage ----------------------------- *)
\* weights.meta["categories"]: the fixed label list of the pretrained model
category_map == <<"tench", "goldfish", "langur">>

NumClasses == Len(category_map)

\* self.model(batch)[i]: the logits of one preprocessed image.  The network
\* is a fixed deterministic function of the image tensor; this table stands
\* for it.  Logits are non-negative integer multiples of ln 2, so that
\* softmax is exact in integer arithmetic (exp(x ln 2) = 2^x).
ModelLogits(img) ==
    [j \in 1..NumClasses |->
        IF j = 1 THEN 1
        ELSE IF j = 2 THEN 2 * (img.px % 2) + (IF img.shape[1] = 32 THEN 1 ELSE 0)
        ELSE 3 - (img.px % 3)]

\* images.cast(tensor(uint8, shape)): succeeds only on tensors of that shape
CastOk(images, shape) == \A i \in DOMAIN images : images[i].shape = shape

\* prediction = logits.softmax(0): normalises every class column over the
\* BATCH axis.  prediction[i][j] = num[i][j] / den[j].
SoftmaxNum(logits) ==
    [i \in DOMAIN logits |-> [j \in 1..NumClasses |-> Pow2(logits[i][j])]]

SoftmaxDen(logits) ==
    [j \in 1..NumClasses |->
        SumSeq([i \in DOMAIN logits |-> Pow2(logits[i][j])])]

\* prediction.argmax(1)[i]: the first class index with the largest
\* prediction[i][j]; fractions are compared by cross multiplication
ArgMax1(num, den, i) ==
    CHOOSE j \in 1..NumClasses :
        /\ \A k \in 1..NumClasses : num[i][j] * den[k] >= num[i][k] * den[j]
        /\ \A k \in 1..(j - 1) : num[i][k] * den[j] < num[i][j] * den[k]

\* an attribute-less object: what a call finds when __init__ never ran
NoInstance ==
    [model |-> "none", eval |-> FALSE, preprocess |-> "none",
     category_map |-> <<>>]

\* ClassifyImage.__init__(self): loads the model and its label list
ClassifyImage__init__ ==
    [model |-> "resnet50", eval |-> TRUE, preprocess |-> "transforms",
     category_map |-> category_map]

\* lines 301-305 of __call__: run the model on the batch and map every
\* row's class id back to a label
PredictLabels(self, images) ==
    LET logits == [i \in DOMAIN images |-> ModelLogits(images[i])]
        num == SoftmaxNum(logits)
        den == SoftmaxDen(logits)
        class_ids == [i \in DOMAIN images |-> ArgMax1(num, den, i)]
    IN [i \in DOMAIN images |-> self.category_map[class_ids[i]]]

\* variant: class_ids = prediction.argmax(0), one batch index per class
ArgMax0(num, j) ==
    CHOOSE i \in DOMAIN num :
        /\ \A k \in DOMAIN num : num[i][j] >= num[k][j]
        /\ \A k \in 1..(i - 1) : num[k][j] < num[i][j]

ClassifyImage__call__ArgmaxAxis0(self, images, shape, fault) ==
    IF Len(images) = 0
    THEN [out |-> <<>>, raised |-> FALSE, cast |-> FALSE,
          preprocess |-> FALSE, model |-> FALSE]
    ELSE LET num == SoftmaxNum([i \in DOMAIN images |-> ModelLogits(images[i])])
         IN [out |-> [j \in 1..NumClasses |-> self.category_map[ArgMax0(num, j)]],
             raised |-> ~CastOk(images, shape) \/ fault = "model",
             cast |-> TRUE, preprocess |-> TRUE, model |-> TRUE]

\* variant: no early return for the empty batch
ClassifyImage__call__NoEmptyGuard(self, images, shape, fault) ==
    IF Len(images) = 0 \/ ~CastOk(images, shape) \/ self.model = "none"
    THEN [out |-> <<>>, raised |-> TRUE, cast |-> TRUE,
          preprocess |-> FALSE, model |-> FALSE]
    ELSE IF fault = "model"
    THEN [out |-> <<>>, raised |-> TRUE, cast |-> TRUE,
          preprocess |-> TRUE, model |-> TRUE]
    ELSE [out |-> PredictLabels(self, images),
          raised |-> FALSE, cast |-> TRUE,
          preprocess |-> TRUE, model |-> TRUE]

\* variant: the body after the guard is wrapped in try/except and a failing
\* batch is answered with a default label per row
ClassifyImage__call__CatchAll(self, images, shape, fault) ==
    IF Len(images) = 0
    THEN [out |-> <<>>, raised |-> FALSE, cast |-> FALSE,
          preprocess |-> FALSE, model |-> FALSE]
    ELSE IF ~CastOk(images, shape) \/ self.model = "none"
    THEN [out |-> [i \in DOMAIN images |-> "unknown"], raised |-> FALSE,
          cast |-> TRUE, preprocess |-> FALSE, model |-> FALSE]
    ELSE IF fault = "model"
    THEN [out |-> [i \in DOMAIN images |-> "unknown"], raised |-> FALSE,
          cast |-> TRUE, preprocess |-> TRUE, model |-> TRUE]
    ELSE [out |-> PredictLabels(self, images),
          raised |-> FALSE, cast |-> TRUE,
          preprocess |-> TRUE, model |-> TRUE]

\* ClassifyImage.__call__(self, images, shape).  fault is what the model
\* library does when it is run on the batch: "none" (it returns logits) or
\* "model" (it raises).  The result records the returned list, whether the
\* call raised, and which of its steps ran.  No line of the body sits in a
\* try block: an exception of the cast or of the model leaves the call.
ClassifyImage__call__(self, images, shape, fault) ==
    IF Len(images) = 0
    THEN [out |-> <<>>, raised |-> FALSE, cast |-> FALSE,
          preprocess |-> FALSE, model |-> FALSE]
    ELSE IF ~CastOk(images, shape) \/ self.model = "none"
    THEN [out |-> <<>>, raised |-> TRUE, cast |-> TRUE,
          preprocess |-> FALSE, model |-> FALSE]
    ELSE IF fault = "model"
    THEN [out |-> <<>>, raised |-> TRUE, cast |-> TRUE,
          preprocess |-> TRUE, model |-> TRUE]
    ELSE [out |-> PredictLabels(self, images),
          raised |-> FALSE, cast |-> TRUE,
          preprocess |-> TRUE, model |-> TRUE]

\* the constant 4x4x3 tensor returned by the stand-in image decode
StubImage == [shape |-> <<4, 4, 3>>, px |-> 0]

\* the stand-in classifier of the end-to-end property: holds no model and
\* always answers "cat"
StubClassifier__init__ ==
    [model |-> "stub", eval |-> TRUE, preprocess |-> "none",
     category_map |-> <<"cat">>]

StubClassifier__call__(self, images, shape, fault) ==
    [out |-> [i \in DOMAIN images |-> "cat"], raised |-> FALSE,
     cast |-> FALSE, preprocess |-> FALSE, model |-> FALSE]

(* ------------------- dataframe engine: pure operations ----------------- *)
\* A table is held as a sequence of partitions; a partition is a sequence
\* of rows; a row is a function from column names to values.

\* limit(n): the first n rows, in partition order
RECURSIVE Limit(_, _)
Limit(ps, n) ==
    IF ps = <<>> THEN <<>>
    ELSE LET h == Take(Head(ps), n)
         IN <<h>> \o Limit(Tail(ps), n - Len(h))

\* where(pred): keeps, in every partition, the rows satisfying pred, in
\* their order; keep[i] tells whether row i of the partition satisfies it
RECURSIVE FilterRows(_, _)
FilterRows(rows, keep) ==
    IF rows = <<>> THEN <<>>
    ELSE (IF Head(keep) THEN <<Head(rows)>> ELSE <<>>)
            \o FilterRows(Tail(rows), Tail(keep))

Where(ps, keep) == [p \in DOMAIN ps |-> FilterRows(ps[p], keep[p])]

\* into_partitions(k): k contiguous slices of the rows, sizes differing by
\* at most one, row order kept
PartitionStart(n, k, i) == (i - 1) * (n \div k) + Min(i - 1, n % k)

\* variant: k slices of equal size, the remainder rows left out
IntoPartitionsDropRemainder(ps, k) ==
    LET rows == Flatten(ps)
        q == Len(rows) \div k
    IN [i \in 1..k |-> SubSeq(rows, (i - 1) * q + 1, i * q)]

IntoPartitions(ps, k) ==
    LET rows == Flatten(ps)
        n == Len(rows)
    IN [i \in 1..k |->
          SubSeq(rows, PartitionStart(n, k, i) + 1, PartitionStart(n, k, i + 1))]

\* with_column(name, values): appends the column, or replaces the column of
\* that name when the table already has one
WithColumnSchema(sch, name) ==
    IF name \in Range(sch) THEN sch ELSE Append(sch, name)

WithColumn(ps, name, vals) ==
    [p \in DOMAIN ps |->
        [i \in DOMAIN ps[p] |-> (name :> vals[p][i]) @@ ps[p][i]]]

\* select(cols): keeps exactly the named columns, in the order given
Select(ps, cols) ==
    [p \in DOMAIN ps |->
        [i \in DOMAIN ps[p] |-> [c \in Range(cols) |-> ps[p][i][c]]]]

\* write_parquet: one columnar file per partition
ParquetFile(sch, part) ==
    [schema |-> sch,
     nrows |-> Len(part),
     columns |-> [c \in Range(sch) |-> [i \in DOMAIN part |-> part[i][c]]]]

\* read_parquet: the rows of one file, rebuilt from its columns
ParquetRows(file) ==
    [i \in 1..file.nrows |->
        [c \in Range(file.schema) |-> file.columns[c][i]]]

(* ------------------- expressions of the notebook ----------------------- *)
UrlPrefix == "s3://daft-public-datasets/imagenet/val-10k-sample-deltalake/images/"

\* prefix + df["filename"] + ".jpeg"
ImageUrl(row) == UrlPrefix \o row["filename"] \o ".jpeg"

\* df["image"].image.resize(w, h): fixed width and height, channels kept
Resize(img, w, h) == [shape |-> <<h, w, img.shape[3]>>, px |-> img.px]

\* variant: lengths() >= 1
ObjectLengthAtLeastOne(row) == Len(row["object"]) >= 1

\* df["object"].list.lengths() == 1
ObjectLengthIsOne(row) == Len(row["object"]) = 1

\* variant: tests the width axis instead of the channel axis
HasThreeChannelsWrongAxis(row) == row["image"].shape[2] = 3

\* lambda img: img.shape[2] == 3   (0-based index 2 is the channel axis)
HasThreeChannels(row) == row["image"].shape[3] = 3

\* variant: the decoded image is not pruned from the output
SelectedColumnsWithImage ==
    <<"filename", "image_url", "object", "image", "predictions_lowres",
      "predictions_highres">>

\* the columns named by df.select(...)
SelectedColumns ==
    <<"filename", "image_url", "object", "predictions_lowres",
      "predictions_highres">>

SmallShape == <<32, 32, 3>>
LargeShape == <<256, 256, 3>>

(* ------------------------------ state ---------------------------------- *)
VARIABLES
    harness,     \* "real", or "stub": decode and classifier are stand-ins
    pc,          \* the notebook statement to run next
    runner,      \* the execution context chosen by set_runner_ray
    NUM_ROWS,    \* the notebook's row-count variable
    classifier,  \* the class bound to the name ClassifyImage
    df,          \* the lazy table handle: [plan, schema]
    ip,          \* number of plan nodes the engine has executed
    schema,      \* columns of the materialised data, in order
    parts,       \* the materialised data: a sequence of partitions
    prevSchema,  \* schema before the last executed plan node
    prevParts,   \* data before the last executed plan node
    lastOp,      \* the last executed plan node
    cursor,      \* batches of the running UDF stage already handled
    acc,         \* UDF outputs of those batches
    source,      \* the rows the scan found at the table URI
    bucket,      \* url -> decoded image, for the urls fetched
    workers,     \* per worker: the UDF instance, constructions, called yet
    lastCall,    \* the latest UDF call: worker, batch and result
    modelRuns,   \* model invocations so far
    fetches,     \* image downloads so far
    fault,       \* the exception an external library raised, if any
    files,       \* the files under my_results.parquet
    result,      \* what read_parquet(...).collect() returned
    error        \* the exception the terminal call raised to the notebook

nbVars == <<pc, runner, NUM_ROWS, classifier, df>>
dataVars == <<ip, schema, parts, prevSchema, prevParts, lastOp, cursor, acc>>
envVars == <<source, bucket, fetches, fault>>
udfVars == <<workers, lastCall, modelRuns>>
outVars == <<files, result, error>>
vars == <<harness, nbVars, dataVars, envVars, udfVars, outVars>>

NoOp == [op |-> "none"]

NoCall ==
    [called |-> FALSE, n |-> 0, images |-> <<>>, first |-> FALSE,
     fault |-> "none",
     res |-> [out |-> <<>>, raised |-> FALSE, cast |-> FALSE,
              preprocess |-> FALSE, model |-> FALSE]]

Init ==
    /\ harness \in {"real", "stub"}
    /\ pc = "set_runner_ray"
    /\ runner = "py"
    /\ NUM_ROWS = 0
    /\ classifier = "undefined"
    /\ df = [plan |-> <<>>, schema |-> <<>>]
    /\ ip = 0
    /\ schema = <<>>
    /\ parts = <<>>
    /\ prevSchema = <<>>
    /\ prevParts = <<>>
    /\ lastOp = NoOp
    /\ cursor = 0
    /\ acc = <<>>
    /\ source = <<>>
    /\ bucket = <<>>
    /\ workers = [w \in Workers |->
                     [self |-> NoInstance, inits |-> 0, called |-> FALSE]]
    /\ lastCall = NoCall
    /\ modelRuns = 0
    /\ fetches = 0
    /\ fault = "none"
    /\ files = <<>>
    /\ result = [schema |-> <<>>, rows |-> <<>>]
    /\ error = "none"

(* ------------------------ notebook statements -------------------------- *)
\* a stage-declaring call: returns a new lazy handle, runs nothing
Declare(node, sch) == [plan |-> Append(df.plan, node), schema |-> sch]

\* daft.context.set_runner_ray(address=RAY_ADDRESS)
SetRunnerRay ==
    /\ pc = "set_runner_ray"
    /\ runner' = "ray"
    /\ pc' = "num_rows"
    /\ UNCHANGED <<harness, NUM_ROWS, classifier, df, dataVars, envVars, udfVars, outVars>>

\* NUM_ROWS = 1000  ("feel free to tweak this variable")
SetNumRows ==
    /\ pc = "num_rows"
    /\ \E n \in 0..MaxNumRows : NUM_ROWS' = n
    /\ pc' = "read_delta_lake"
    /\ UNCHANGED <<harness, runner, classifier, df, dataVars, envVars, udfVars, outVars>>

\* df = daft.read_delta_lake(uri, io_config=io_config)
ReadDeltaLake ==
    /\ pc = "read_delta_lake"
    /\ df' = [plan |-> <<[op |-> "scan"]>>, schema |-> <<"filename", "object">>]
    /\ pc' = "limit"
    /\ UNCHANGED <<harness, runner, NUM_ROWS, classifier, dataVars, envVars, udfVars, outVars>>

\* variant: the filter on `object` is declared first and the limit after
\* it, df.where(...).limit(NUM_ROWS)
LimitRowsAfterFilter ==
    /\ pc = "limit"
    /\ df' = [plan |-> df.plan \o <<[op |-> "where", pred |-> "object_length_is_one"],
                                    [op |-> "limit", n |-> NUM_ROWS]>>,
              schema |-> df.schema]
    /\ pc' = "into_partitions"
    /\ UNCHANGED <<harness, runner, NUM_ROWS, classifier, dataVars, envVars, udfVars, outVars>>

\* variant: df.limit(NUM_ROWS + 1)
LimitRowsOffByOne ==
    /\ pc = "limit"
    /\ df' = Declare([op |-> "limit", n |-> NUM_ROWS + 1], df.schema)
    /\ pc' = "where_object"
    /\ UNCHANGED <<harness, runner, NUM_ROWS, classifier, dataVars, envVars, udfVars, outVars>>

\* df = df.limit(NUM_ROWS)
LimitRows ==
    /\ pc = "limit"
    /\ df' = Declare([op |-> "limit", n |-> NUM_ROWS], df.schema)
    /\ pc' = "where_object"
    /\ UNCHANGED <<harness, runner, NUM_ROWS, classifier, dataVars, envVars, udfVars, outVars>>

\* df = df.where(df["object"].list.lengths() == 1)
WhereObject ==
    /\ pc = "where_object"
    /\ df' = Declare([op |-> "where", pred |-> "object_length_is_one"], df.schema)
    /\ pc' = "into_partitions"
    /\ UNCHANGED <<harness, runner, NUM_ROWS, classifier, dataVars, envVars, udfVars, outVars>>

\* df = df.into_partitions(16)
IntoPartitionsStmt ==
    /\ pc = "into_partitions"
    /\ \E k \in 1..MaxPartitions :
          df' = Declare([op |-> "into_partitions", k |-> k], df.schema)
    /\ pc' = "with_image_url"
    /\ UNCHANGED <<harness, runner, NUM_ROWS, classifier, dataVars, envVars, udfVars, outVars>>

ColumnNode(name, fn, col, arg) ==
    [op |-> "with_column", name |-> name, fn |-> fn, col |-> col, arg |-> arg]

\* df = df.with_column(name, expr)
DeclareColumn(at, next, name, fn, col, arg) ==
    /\ pc = at
    /\ df' = Declare(ColumnNode(name, fn, col, arg), WithColumnSchema(df.schema, name))
    /\ pc' = next
    /\ UNCHANGED <<harness, runner, NUM_ROWS, classifier, dataVars, envVars, udfVars, outVars>>

\* df = df.with_column("image_url", prefix + df["filename"] + ".jpeg")
WithImageUrl ==
    DeclareColumn("with_image_url", "with_image",
                  "image_url", "image_url", "filename", <<>>)

\* variant: the download runs when the column is declared
WithImageEager ==
    /\ pc = "with_image"
    /\ df' = Declare(ColumnNode("image", "download_decode", "image_url", <<>>),
                     WithColumnSchema(df.schema, "image"))
    /\ fetches' = fetches + 1
    /\ pc' = "with_resized_small"
    /\ UNCHANGED <<harness, runner, NUM_ROWS, classifier, dataVars, source, bucket,
                   fault, udfVars, outVars>>

\* df = df.with_column("image", df["image_url"].url.download().image.decode())
WithImage ==
    DeclareColumn("with_image", "with_resized_small",
                  "image", "download_decode", "image_url", <<>>)

\* df = df.with_column("image_resized_small", df["image"].image.resize(32, 32))
WithResizedSmall ==
    DeclareColumn("with_resized_small", "with_resized_large",
                  "image_resized_small", "resize", "image", <<32, 32>>)

\* df = df.with_column("image_resized_large", df["image"].image.resize(256, 256))
WithResizedLarge ==
    DeclareColumn("with_resized_large", "define_udf",
                  "image_resized_large", "resize", "image", <<256, 256>>)

\* @daft.udf(return_dtype=string) class ClassifyImage: binds the name; the
\* stub harness binds the stand-in classifier instead
DefineUdf ==
    /\ pc = "define_udf"
    /\ classifier' = IF harness = "stub" THEN "StubClassifier" ELSE "ClassifyImage"
    /\ pc' = "where_channels"
    /\ UNCHANGED <<harness, runner, NUM_ROWS, df, dataVars, envVars, udfVars, outVars>>

\* variant: the channel filter is left out of the plan
WhereChannelsOmitted ==
    /\ pc = "where_channels"
    /\ pc' = "with_predictions_lowres"
    /\ UNCHANGED <<harness, runner, NUM_ROWS, classifier, df, dataVars, envVars,
                   udfVars, outVars>>

\* df = df.where(df["image"].apply(lambda img: img.shape[2] == 3, ...))
WhereChannels ==
    /\ pc = "where_channels"
    /\ df' = Declare([op |-> "where", pred |-> "has_three_channels"], df.schema)
    /\ pc' = "with_predictions_lowres"
    /\ UNCHANGED <<harness, runner, NUM_ROWS, classifier, dataVars, envVars, udfVars, outVars>>

\* df = df.with_column("predictions_lowres",
\*                     ClassifyImage(df["image_resized_small"], [32, 32, 3]))
WithPredictionsLowres ==
    DeclareColumn("with_predictions_lowres", "with_predictions_highres",
                  "predictions_lowres", "udf", "image_resized_small", SmallShape)

\* variant: the second prediction column reuses the name of the first
WithPredictionsHighresOverwrites ==
    DeclareColumn("with_predictions_highres", "select",
                  "predictions_lowres", "udf", "image_resized_large", LargeShape)

\* df = df.with_column("predictions_highres",
\*                     ClassifyImage(df["image_resized_large"], [256, 256, 3]))
WithPredictionsHighres ==
    DeclareColumn("with_predictions_highres", "select",
                  "predictions_highres", "udf", "image_resized_large", LargeShape)

\* df = df.select("filename", "image_url", "object", "predictions_lowres",
\*                "predictions_highres")
SelectColumns ==
    /\ pc = "select"
    /\ df' = Declare([op |-> "select", cols |-> SelectedColumns], SelectedColumns)
    /\ pc' = "write_parquet"
    /\ UNCHANGED <<harness, runner, NUM_ROWS, classifier, dataVars, envVars, udfVars, outVars>>

\* df.write_parquet("my_results.parquet"): the terminal action; the engine
\* now runs df.plan node by node (the Exec actions) and then writes
WriteParquet ==
    /\ pc = "write_parquet"
    /\ pc' = "executing"
    /\ UNCHANGED <<harness, runner, NUM_ROWS, classifier, df, dataVars, envVars, udfVars, outVars>>

(* ---------------------- the engine runs the plan ----------------------- *)
\* the next plan node to execute
Node == df.plan[ip + 1]

Ready(op) ==
    /\ pc = "executing"
    /\ ip < Len(df.plan)
    /\ Node.op = op

\* a plan node has been executed over the whole table
Step(node, sch, ps) ==
    /\ ip' = ip + 1
    /\ prevSchema' = schema
    /\ prevParts' = parts
    /\ schema' = sch
    /\ parts' = ps
    /\ lastOp' = node
    /\ cursor' = 0
    /\ acc' = <<>>

\* an external library raised exc while the plan ran: the engine stops the
\* run and the terminal call re-raises exc to the notebook, which has no
\* handler around it
Raise(exc) ==
    /\ fault' = exc
    /\ error' = exc
    /\ pc' = "raised"
    /\ UNCHANGED <<harness, runner, NUM_ROWS, classifier, df, dataVars, source,
                   bucket, fetches, result>>

\* scan: reads whatever table is stored at the URI, as one partition; the
\* read fails when the store rejects the credentials of io_config
ExecScan ==
    /\ Ready("scan")
    /\ \/ /\ \E t \in SourceTables :
                /\ source' = t
                /\ Step(Node, <<"filename", "object">>, <<t>>)
          /\ UNCHANGED <<harness, nbVars, bucket, fetches, fault, udfVars, outVars>>
       \/ /\ Raise("credentials")
          /\ UNCHANGED <<udfVars, files>>

ExecLimit ==
    /\ Ready("limit")
    /\ Step(Node, schema, Limit(parts, Node.n))
    /\ UNCHANGED <<harness, nbVars, envVars, udfVars, outVars>>

\* the value of a filter predicate on one row
EvalPred(pred, row) ==
    IF pred = "object_length_is_one" THEN ObjectLengthIsOne(row)
    ELSE HasThreeChannels(row)

ExecWhere ==
    /\ Ready("where")
    /\ Step(Node, schema,
            Where(parts, [p \in DOMAIN parts |->
                            [i \in DOMAIN parts[p] |-> EvalPred(Node.pred, parts[p][i])]]))
    /\ UNCHANGED <<harness, nbVars, envVars, udfVars, outVars>>

ExecIntoPartitions ==
    /\ Ready("into_partitions")
    /\ Step(Node, schema, IntoPartitions(parts, Node.k))
    /\ UNCHANGED <<harness, nbVars, envVars, udfVars, outVars>>

\* the value of a pure row-wise expression on one row
EvalExpr(node, row) ==
    IF node.fn = "image_url" THEN ImageUrl(row)
    ELSE Resize(row[node.col], node.arg[1], node.arg[2])

\* with_column over a pure row-wise expression
ExecWithColumn ==
    /\ Ready("with_column")
    /\ Node.fn \in {"image_url", "resize"}
    /\ Step(Node, WithColumnSchema(schema, Node.name),
            WithColumn(parts, Node.name,
                [p \in DOMAIN parts |->
                    [i \in DOMAIN parts[p] |-> EvalExpr(Node, parts[p][i])]]))
    /\ UNCHANGED <<harness, nbVars, envVars, udfVars, outVars>>

\* with_column over url.download().image.decode(): one fetch per row; the
\* bucket answers every url with the image stored under it (the stub
\* harness decodes every download to the same tensor).  download() and
\* decode() are called with their default on_error = "raise": a url that
\* cannot be fetched, or bytes that are no image, fail the stage.
ExecDownload ==
    /\ Ready("with_column")
    /\ Node.fn = "download_decode"
    /\ \/ /\ LET urls == {r[Node.col] : r \in Range(Flatten(parts))}
             IN \E got \in [urls -> IF harness = "stub" THEN {StubImage} ELSE Images] :
                   /\ bucket' = got
                   /\ fetches' = fetches + CountRows(parts)
                   /\ Step(Node, WithColumnSchema(schema, Node.name),
                           WithColumn(parts, Node.name,
                               [p \in DOMAIN parts |->
                                   [i \in DOMAIN parts[p] |-> got[parts[p][i][Node.col]]]]))
          /\ UNCHANGED <<harness, nbVars, source, fault, udfVars, outVars>>
       \/ /\ harness = "real"
          /\ CountRows(parts) >= 1
          /\ \E exc \in {"fetch", "decode"} : Raise(exc)
          /\ UNCHANGED <<udfVars, files>>

UdfInit(cls) ==
    IF cls = "ClassifyImage" THEN ClassifyImage__init__ ELSE StubClassifier__init__

UdfCall(cls, self, images, shape, f) ==
    IF cls = "ClassifyImage"
    THEN ClassifyImage__call__(self, images, shape, f)
    ELSE StubClassifier__call__(self, images, shape, f)

\* variant: a fresh construction for every batch
NeedsConstructionEveryBatch(w) == TRUE

\* a worker constructs the UDF only when it holds no instance yet
NeedsConstruction(w) == workers[w].self = NoInstance

\* workers are interchangeable: a batch goes to a worker that has handled
\* one before or to the first worker that has not
Eligible(w) == \A v \in 1..(w - 1) : workers[v].called

\* with_column over the UDF: the next partition is handed, as one batch, to
\* worker w.  A worker constructs the UDF before its first batch and keeps
\* the instance for later batches.  f is what the model library does on
\* this batch; an exception leaving the call stops the run.
ExecUdfBatch(w) ==
    /\ Ready("with_column")
    /\ Node.fn = "udf"
    /\ Eligible(w)
    /\ \E f \in {"none", "model"} :
        LET p == cursor + 1
            images == [i \in DOMAIN parts[p] |-> parts[p][i][Node.col]]
            fresh == NeedsConstruction(w)
            self == IF fresh THEN UdfInit(classifier) ELSE workers[w].self
            res == UdfCall(classifier, self, images, Node.arg, f)
        IN /\ f = "model" => (classifier = "ClassifyImage" /\ Len(images) >= 1)
           /\ workers' = [workers EXCEPT ![w] =
                             [self |-> self,
                              inits |-> @.inits + (IF fresh THEN 1 ELSE 0),
                              called |-> TRUE]]
           /\ lastCall' = [called |-> TRUE, n |-> Len(images), images |-> images,
                           first |-> fresh, fault |-> f, res |-> res]
           /\ modelRuns' = modelRuns + (IF res.model THEN 1 ELSE 0)
           /\ fault' = IF f # "none" THEN f
                       ELSE IF res.raised \/ Len(res.out) # Len(images) THEN "udf"
                       ELSE fault
           /\ IF res.raised \/ Len(res.out) # Len(images)
              THEN /\ error' = IF f # "none" THEN f ELSE "udf"
                   /\ pc' = "raised"
                   /\ UNCHANGED <<harness, runner, NUM_ROWS, classifier, df, dataVars>>
              ELSE /\ IF p = Len(parts)
                      THEN Step(Node, WithColumnSchema(schema, Node.name),
                                WithColumn(parts, Node.name, Append(acc, res.out)))
                      ELSE /\ cursor' = p
                           /\ acc' = Append(acc, res.out)
                           /\ UNCHANGED <<ip, schema, parts, prevSchema,
                                          prevParts, lastOp>>
                   /\ UNCHANGED <<harness, nbVars, error>>
    /\ UNCHANGED <<harness, source, bucket, fetches, files, result>>

ExecSelect ==
    /\ Ready("select")
    /\ Step(Node, Node.cols, Select(parts, Node.cols))
    /\ UNCHANGED <<harness, nbVars, envVars, udfVars, outVars>>

\* the sink: every plan node has run; one file per partition is written and
\* write_parquet returns.  A write that fails may leave the files written
\* before it behind.
ExecWriteFiles ==
    /\ pc = "executing"
    /\ ip = Len(df.plan)
    /\ \/ /\ files' = [p \in DOMAIN parts |-> ParquetFile(schema, parts[p])]
          /\ pc' = "read_parquet_collect"
          /\ UNCHANGED <<harness, runner, NUM_ROWS, classifier, df, dataVars,
                         envVars, udfVars, result, error>>
       \/ /\ \E n \in 0..(Len(parts) - 1) :
                files' = [p \in 1..n |-> ParquetFile(schema, parts[p])]
          /\ Raise("write")
          /\ UNCHANGED udfVars

\* daft.read_parquet("my_results.parquet").collect()
ReadParquetCollect ==
    /\ pc = "read_parquet_collect"
    /\ result' = [schema |-> files[1].schema,
                  rows |-> Flatten([f \in DOMAIN files |-> ParquetRows(files[f])])]
    /\ pc' = "done"
    /\ UNCHANGED <<harness, runner, NUM_ROWS, classifier, df, dataVars, envVars,
                   udfVars, files, error>>

Next ==
    \/ SetRunnerRay
    \/ SetNumRows
    \/ ReadDeltaLake
    \/ LimitRows
    \/ WhereObject
    \/ IntoPartitionsStmt
    \/ WithImageUrl
    \/ WithImage
    \/ WithResizedSmall
    \/ WithResizedLarge
    \/ DefineUdf
    \/ WhereChannels
    \/ WithPredictionsLowres
    \/ WithPredictionsHighres
    \/ SelectColumns
    \/ WriteParquet
    \/ ExecScan
    \/ ExecLimit
    \/ ExecWhere
    \/ ExecIntoPartitions
    \/ ExecWithColumn
    \/ ExecDownload
    \/ \E w \in Workers : ExecUdfBatch(w)
    \/ ExecSelect
    \/ ExecWriteFiles
    \/ ReadParquetCollect

Spec == Init /\ [][Next]_vars

TypeOK ==
    /\ pc \in {"set_runner_ray", "num_rows", "read_delta_lake", "limit",
               "where_object", "into_partitions", "with_image_url",
               "with_image", "with_resized_small", "with_resized_large",
               "define_udf", "where_channels", "with_predictions_lowres",
               "with_predictions_highres", "select", "write_parquet",
               "executing", "read_parquet_collect", "done", "raised"}
    /\ NUM_ROWS \in 0..MaxNumRows
    /\ ip \in 0..Len(df.plan)
    /\ cursor \in 0..MaxPartitions
    /\ fault \in {"none", "udf", "credentials", "fetch", "decode", "model", "write"}
    /\ error \in {"none", "udf", "credentials", "fetch", "decode", "model", "write"}

(* ------------------------------ properties ----------------------------- *)
\* a batch has been handed to the real ClassifyImage
RealCall == classifier = "ClassifyImage" /\ lastCall.called

\* the denominator of softmax(0) for class j over the batch of the last call
BatchDen(j) ==
    SumSeq([i \in DOMAIN lastCall.images |->
                Pow2(ModelLogits(lastCall.images[i])[j])])

\* class c has the largest prediction[i][.] in the batch of the last call
TopClass(i, c) ==
    \A k \in 1..NumClasses :
        Pow2(ModelLogits(lastCall.images[i])[c]) * BatchDen(k)
            >= Pow2(ModelLogits(lastCall.images[i])[k]) * BatchDen(c)

\* C1: for every non-empty batch of m fixed-shape image tensors,
\* ClassifyImage.__call__ returns (without raising) exactly m labels, the
\* i-th being the label of a top-scoring class of row i, and every label is
\* an element of the category list loaded at construction.
C1_OneLabelPerRow ==
    (RealCall /\ lastCall.n >= 1 /\ lastCall.fault = "none") =>
        /\ ~lastCall.res.raised
        /\ Len(lastCall.res.out) = lastCall.n
        /\ \A i \in 1..Len(lastCall.res.out) :
              /\ lastCall.res.out[i] \in Range(category_map)
              /\ \E c \in 1..NumClasses :
                    /\ category_map[c] = lastCall.res.out[i]
                    /\ TopClass(i, c)

\* a batch of at least two rows was classified into two different labels
C1_Witness ==
    /\ RealCall
    /\ lastCall.n >= 2
    /\ lastCall.res.model
    /\ Len(lastCall.res.out) = lastCall.n
    /\ lastCall.res.out[1] # lastCall.res.out[2]

\* C2: handed an empty batch, ClassifyImage.__call__ returns an empty list
\* without raising and without running the cast, the preprocessing or the
\* model.
C2_EmptyBatch ==
    (RealCall /\ lastCall.n = 0) =>
        /\ lastCall.res.out = <<>>
        /\ ~lastCall.res.raised
        /\ ~lastCall.res.cast
        /\ ~lastCall.res.preprocess
        /\ ~lastCall.res.model

\* an empty partition reached the real ClassifyImage
C2_Witness ==
    /\ RealCall
    /\ lastCall.n = 0
    /\ lastCall.images = <<>>
    /\ lastOp.op # "none"

\* the setting of the end-to-end property: the stub classifier, a 3-row
\* table a, b, c whose rows pass the `object` filter and are within the
\* limit, and a decode that gave the constant 3-channel tensor every time
EndToEndSetting ==
    /\ harness = "stub"
    /\ classifier = "StubClassifier"
    /\ NUM_ROWS >= 3
    /\ Len(source) = 3
    /\ \A i \in 1..3 :
          /\ source[i]["filename"] = <<"a", "b", "c">>[i]
          /\ Len(source[i]["object"]) = 1
    /\ \A u \in DOMAIN bucket : bucket[u] = StubImage

\* C3: end to end, in that setting, the table read back after the run has
\* exactly 3 rows, one per filename a, b, c, each with
\* predictions_lowres = predictions_highres = "cat".
C3_EndToEnd ==
    (pc = "done" /\ EndToEndSetting) =>
        /\ Len(result.rows) = 3
        /\ {result.rows[i]["filename"] : i \in 1..Len(result.rows)} = {"a", "b", "c"}
        /\ \A i \in 1..Len(result.rows) :
              /\ result.rows[i]["predictions_lowres"] = "cat"
              /\ result.rows[i]["predictions_highres"] = "cat"

\* the end-to-end run finished and three images were fetched and decoded
C3_Witness ==
    /\ pc = "done"
    /\ EndToEndSetting
    /\ Cardinality(DOMAIN bucket) = 3
    /\ fetches = 3
    /\ Len(files) >= 1

\* C4: repartitioning into k partitions yields k partitions whose rows are,
\* as a multiset, exactly the rows before it: same total count, no row
\* lost or duplicated.
C4_RepartitionPreservesRows ==
    (lastOp.op = "into_partitions") =>
        /\ Len(parts) = lastOp.k
        /\ CountRows(parts) = CountRows(prevParts)
        /\ SeqToBag(Flatten(parts)) = SeqToBag(Flatten(prevParts))

\* three rows were split over at least two partitions
C4_Witness ==
    /\ lastOp.op = "into_partitions"
    /\ lastOp.k >= 2
    /\ CountRows(prevParts) = 3
    /\ Len(parts) >= 2

\* C5: limiting the table to NUM_ROWS rows leaves
\* min(NUM_ROWS, original row count) rows.
C5_LimitCount ==
    (lastOp.op = "limit") =>
        /\ prevParts = <<source>>
        /\ CountRows(parts) = Min(NUM_ROWS, Len(source))

\* the limit cut a longer table down to NUM_ROWS > 0 rows
C5_Witness ==
    /\ lastOp.op = "limit"
    /\ NUM_ROWS > 0
    /\ NUM_ROWS < Len(source)
    /\ CountRows(parts) = NUM_ROWS

\* the rows of a partition whose `object` list has length 1
KeepLengthOne(rows) == SelectSeq(rows, LAMBDA r : Len(r["object"]) = 1)

\* C6: the filter on `object` lists of length 1 is idempotent: filtering
\* its result once more gives the same rows.
C6_FilterIdempotent ==
    (lastOp.op = "where" /\ lastOp.pred = "object_length_is_one") =>
        [p \in DOMAIN parts |-> KeepLengthOne(parts[p])] = parts

\* the filter dropped some rows and kept others
C6_Witness ==
    /\ lastOp.op = "where"
    /\ lastOp.pred = "object_length_is_one"
    /\ CountRows(parts) >= 1
    /\ CountRows(parts) < CountRows(prevParts)

\* C7: the table written out and read back has exactly the columns
\* filename, image_url, object, predictions_lowres, predictions_highres, in
\* that order; image, image_resized_small and image_resized_large are not
\* part of it.
OutputColumns ==
    <<"filename", "image_url", "object", "predictions_lowres",
      "predictions_highres">>

C7_OutputSchema ==
    /\ pc \in {"read_parquet_collect", "done"} =>
          \A f \in DOMAIN files :
              /\ files[f].schema = OutputColumns
              /\ DOMAIN files[f].columns = Range(OutputColumns)
    /\ pc = "done" =>
          /\ result.schema = OutputColumns
          /\ \A i \in DOMAIN result.rows :
                /\ DOMAIN result.rows[i] = Range(OutputColumns)
                /\ {"image", "image_resized_small", "image_resized_large"}
                      \cap DOMAIN result.rows[i] = {}

\* a non-empty output was read back
C7_Witness ==
    /\ pc = "done"
    /\ Len(result.rows) >= 2
    /\ Len(files) >= 2

\* a terminal action (write_parquet, collect) has been invoked
TerminalInvoked == pc \in {"executing", "read_parquet_collect", "done", "raised"}

\* C8: execution is lazy: until a terminal action is invoked, the
\* stage-declaring calls have executed no plan node, fetched nothing, read
\* no table and invoked neither the UDF nor the model.
C8_Lazy ==
    ~TerminalInvoked =>
        /\ ip = 0
        /\ lastOp.op = "none"
        /\ fetches = 0
        /\ DOMAIN bucket = {}
        /\ Len(source) = 0
        /\ modelRuns = 0
        /\ ~lastCall.called
        /\ \A w \in Workers : workers[w].inits = 0 /\ ~workers[w].called
        /\ Len(files) = 0

\* every stage has been declared and nothing has run
C8_Witness ==
    /\ pc = "write_parquet"
    /\ Len(df.plan) = 12
    /\ df.plan[6].fn = "download_decode"
    /\ df.plan[10].fn = "udf"
    /\ ip = 0

\* C9: a column-derivation step yields a table with exactly one more
\* column and the same rows: per partition the row count is unchanged,
\* every earlier column keeps its value and the new column has a value in
\* every row.
C9_WithColumnFrame ==
    (lastOp.op = "with_column") =>
        /\ lastOp.name \notin Range(prevSchema)
        /\ schema = Append(prevSchema, lastOp.name)
        /\ Len(parts) = Len(prevParts)
        /\ \A p \in DOMAIN parts :
              /\ Len(parts[p]) = Len(prevParts[p])
              /\ \A i \in DOMAIN parts[p] :
                    /\ DOMAIN parts[p][i] = Range(prevSchema) \cup {lastOp.name}
                    /\ \A c \in Range(prevSchema) :
                          parts[p][i][c] = prevParts[p][i][c]

\* the last prediction column was derived for at least two rows
C9_Witness ==
    /\ lastOp.op = "with_column"
    /\ lastOp.name = "predictions_highres"
    /\ CountRows(parts) >= 2
    /\ Len(schema) = 8

\* C10: on every worker the UDF is constructed at most once, no batch is
\* handled by a worker that has not constructed it, and a worker that has
\* handled batches holds the instance it constructed; a worker that has
\* handled no batch has constructed nothing.
C10_ConstructOnce ==
    /\ \A w \in Workers :
          /\ workers[w].inits <= 1
          /\ workers[w].called =>
                /\ workers[w].inits = 1
                /\ workers[w].self # NoInstance
                /\ workers[w].self.model # "none"
          /\ ~workers[w].called => workers[w].inits = 0
    /\ lastCall.called => \E w \in Workers : workers[w].called

\* a batch was handled by a worker that had constructed the UDF for an
\* earlier batch, while another worker is still unused
C10_Witness ==
    /\ lastCall.called
    /\ ~lastCall.first
    /\ \E w \in Workers : workers[w].called /\ workers[w].inits = 1
    /\ \E w \in Workers : ~workers[w].called

\* C11: a failure of an external step while the plan runs (rejected
\* credentials, a failed fetch or decode, a failed cast or model run, a
\* failed write) reaches the caller as it was raised: the run stops at the
\* failing step with that very exception, the batch that failed is given no
\* labels, no file is written after it and nothing is read back; and the
\* caller sees no exception other than the one an external step raised.
C11_FailurePropagates ==
    /\ fault # "none" =>
          /\ pc = "raised"
          /\ error = fault
          /\ result = [schema |-> <<>>, rows |-> <<>>]
          /\ fault # "write" => (files = <<>> /\ ip < Len(df.plan))
          /\ fault \in {"model", "udf"} =>
                /\ lastCall.res.raised
                /\ lastCall.res.out = <<>>
                /\ Len(acc) = cursor
    /\ error # "none" => (fault = error /\ pc = "raised")
    /\ pc = "raised" => error # "none"

\* the model failed on a batch after an earlier batch of the same stage had
\* been labelled
C11_Witness ==
    /\ pc = "raised"
    /\ fault = "model"
    /\ error = "model"
    /\ lastCall.n >= 1
    /\ cursor >= 1
    /\ Len(acc[1]) >= 1

\* every non-empty batch of at most MaxRows 3-channel images of one shape
BatchesOfShape(shape) ==
    UNION {[1..n -> {[shape |-> shape, px |-> p] : p \in 0..MaxPixel}]
            : n \in 1..MaxRows}

\* the label ClassifyImage gives an image handed to it as a batch of its own
LabelAlone(img) == PredictLabels(ClassifyImage__init__, <<img>>)[1]

\* C12: the label ClassifyImage assigns to a row depends only on that row's
\* image: the label an image got in the batch just classified is the label
\* it gets in every other batch that contains it, and every written
\* prediction is the label of the row's own resized image whatever the
\* partition count and batch split were.
C12_LabelIndependentOfBatch ==
    /\ (RealCall /\ lastCall.n >= 1 /\ ~lastCall.res.raised) =>
          \A b \in BatchesOfShape(lastCall.images[1].shape) :
              \A i \in DOMAIN lastCall.images, j \in DOMAIN b :
                  b[j] = lastCall.images[i] =>
                      PredictLabels(ClassifyImage__init__, b)[j] = lastCall.res.out[i]
    /\ (pc = "done" /\ classifier = "ClassifyImage") =>
          \A i \in DOMAIN result.rows :
              LET img == bucket[result.rows[i]["image_url"]]
              IN /\ result.rows[i]["predictions_lowres"]
                      = LabelAlone(Resize(img, 32, 32))
                 /\ result.rows[i]["predictions_highres"]
                      = LabelAlone(Resize(img, 256, 256))

\* a UDF stage is running or is the next stage to run
AtUdfStage ==
    /\ pc = "executing"
    /\ ip < Len(df.plan)
    /\ df.plan[ip + 1].op = "with_column"
    /\ df.plan[ip + 1].fn = "udf"

\* C13: every row that reaches the UDF, and every row of the written
\* output, has an `object` list of length exactly 1 and a decoded image
\* with exactly 3 channels; every batch handed to the UDF holds only
\* tensors of the fixed shape (32,32,3) or (256,256,3), so the cast is never
\* attempted on an image whose channel count is not 3 and never fails.
C13_OnlyFilteredRowsReachUdf ==
    /\ AtUdfStage =>
          \A r \in Range(Flatten(parts)) :
              /\ Len(r["object"]) = 1
              /\ r["image"].shape[3] = 3
    /\ lastCall.called =>
          /\ \A i \in DOMAIN lastCall.images :
                lastCall.images[i].shape \in {<<32, 32, 3>>, <<256, 256, 3>>}
          /\ lastCall.res.cast =>
                \E shape \in {<<32, 32, 3>>, <<256, 256, 3>>} :
                    \A i \in DOMAIN lastCall.images : lastCall.images[i].shape = shape
    /\ error # "udf"
    /\ fault # "udf"
    /\ \A f \in DOMAIN files : \A i \in 1..files[f].nrows :
          /\ Len(files[f].columns["object"][i]) = 1
          /\ bucket[files[f].columns["image_url"][i]].shape[3] = 3
    /\ \A i \in DOMAIN result.rows :
          /\ Len(result.rows[i]["object"]) = 1
          /\ bucket[result.rows[i]["image_url"]].shape[3] = 3

\* a run was written and read back in which each filter dropped a row of
\* the limited table and a batch of the remaining rows went through the cast
C13_Witness ==
    /\ pc = "done"
    /\ Len(result.rows) >= 1
    /\ lastCall.res.cast
    /\ \E i \in 1..Min(NUM_ROWS, Len(source)) : Len(source[i]["object"]) # 1
    /\ \E u \in DOMAIN bucket : bucket[u].shape[3] # 3

\* the rows among the first NUM_ROWS source rows that pass both filters
FirstRowsKept ==
    SelectSeq(SubSeq(source, 1, Min(NUM_ROWS, Len(source))),
              LAMBDA r : /\ Len(r["object"]) = 1
                         /\ bucket[ImageUrl(r)].shape[3] = 3)

\* C14: the limit is applied before both filters: the rows written and
\* read back are exactly the rows among the first NUM_ROWS source rows
\* that pass the two filters, each once, so their count is at most
\* min(NUM_ROWS, source row count).  (That the count can fall short of
\* NUM_ROWS although the source holds NUM_ROWS passing rows is the witness.)
C14_LimitBeforeFilters ==
    pc = "done" =>
        /\ Len(result.rows) = Len(FirstRowsKept)
        /\ {result.rows[i]["filename"] : i \in DOMAIN result.rows}
              = {FirstRowsKept[i]["filename"] : i \in DOMAIN FirstRowsKept}
        /\ \A i \in DOMAIN result.rows : \E j \in DOMAIN FirstRowsKept :
              /\ result.rows[i]["filename"] = FirstRowsKept[j]["filename"]
              /\ result.rows[i]["object"] = FirstRowsKept[j]["object"]
        /\ Len(result.rows) <= Min(NUM_ROWS, Len(source))

\* the source holds at least NUM_ROWS rows with one object, every image
\* fetched has 3 channels, and still fewer than NUM_ROWS rows were written:
\* a row beyond the limit would have passed, a row within it did not
C14_Witness ==
    /\ pc = "done"
    /\ NUM_ROWS >= 2
    /\ Len(result.rows) >= 1
    /\ Len(result.rows) < NUM_ROWS
    /\ Len(SelectSeq(source, LAMBDA r : Len(r["object"]) = 1)) >= NUM_ROWS
    /\ \A u \in DOMAIN bucket : bucket[u].shape[3] = 3

====
